---------------------------- MODULE Spec2Model ----------------------------
(***************************************************************************)
(* Model of portapak's src/lib/types.rs: the Repo lifecycle (temp / system *)
(* / user / static, with Drop deleting a Temp directory), get_installation,*)
(* uri_to_bytes, the Remote -> libflatpak::Remote conversion and           *)
(* Flatpak::convert_to_flatpak_out.                                        *)
(*                                                                         *)
(* Strings the code inspects (uris, names) are sequences of one-character  *)
(* strings, so that starts_with and split_once are computed.  Paths are    *)
(* sequences of components, so that PathBuf::join and the recursive delete *)
(* are computed.  The file system, the network and libflatpak are the      *)
(* environment: each call into them takes one of the outcomes it can have. *)
(***************************************************************************)
EXTENDS Integers, Sequences, FiniteSets, TLC

VARIABLES
    repos,        \* the Repo values constructed so far (index = handle)
    live,         \* live[h]: the value is still in scope (Drop has not run)
    fs,           \* the directories that exist
    removeCalls,  \* path -> number of remove_dir_all calls made on it
    requested,    \* handle -> the native constructor requests made for it
    lastInst,     \* the last get_installation call: handle, request, result, repeated or not
    files,        \* the readable regular files: path -> bytes
    last          \* the last uri_to_bytes / try_from / convert_to_flatpak_out call

vars == <<repos, live, fs, removeCalls, requested, lastInst,
          files, last>>

ioVars == <<files, last>>

-----------------------------------------------------------------------------
(* Bounds *)

\* Repo values constructed in one run (temp, temp_in, System, User, Static, clone).
MaxHandles == 2

-----------------------------------------------------------------------------
(* Strings and paths *)

IsPrefix(p, s) == Len(p) <= Len(s) /\ SubSeq(s, 1, Len(p)) = p

\* str::starts_with
StartsWith(s, p) == IsPrefix(p, s)

\* The positions at which pat occurs in s.
Occurrences(s, pat) ==
    { i \in 1..(Len(s) - Len(pat) + 1) : SubSeq(s, i, i + Len(pat) - 1) = pat }

Contains(s, pat) == Occurrences(s, pat) # {}

Min(S) == CHOOSE x \in S : \A y \in S : x <= y

\* str::split_once: the parts before and after the first occurrence of pat.
SplitOnce(s, pat) ==
    LET i == Min(Occurrences(s, pat))
    IN  <<SubSeq(s, 1, i - 1), SubSeq(s, i + Len(pat), Len(s))>>

\* PathBuf::join with a relative component.
Join(path, name) == Append(path, name)

\* A directory and everything above it (what creating it recursively creates).
Ancestors(path) == { SubSeq(path, 1, n) : n \in 1..Len(path) }

-----------------------------------------------------------------------------
(* Repo *)

\* The number of random alphanumeric characters in a temp folder name.
SuffixLen == 7

\* The alphanumeric characters the model draws from.
Alphabet == {"a", "Z"}

\* The folder names thread_rng can produce here: SuffixLen equal characters.
Foldernames == { [i \in 1..SuffixLen |-> c] : c \in Alphabet }

\* env::temp_dir()
TempDir == << <<"t", "m", "p">> >>

\* The directories a caller passes to temp_in.
BaseDirs == { << <<"w", "o", "r", "k">> >> }

\* The paths and flags a caller gives a Static repo.
StaticPaths == { << <<"w", "o", "r", "k">>, <<"r", "e", "p", "o">> >> }

\* format!(".tmp{}", foldername)
TempName(foldername) == <<".", "t", "m", "p">> \o foldername

RepoTemp(path) == [variant |-> "Temp", path |-> path]
RepoSystem == [variant |-> "System"]
RepoUser == [variant |-> "User"]
RepoStatic(path, user) == [variant |-> "Static", path |-> path, user |-> user]

\* Repo::temp_in
temp_in(path, foldername) == RepoTemp(Join(path, TempName(foldername)))

\* Repo::temp
temp(foldername) == temp_in(TempDir, foldername)

\* #[derive(Clone)] on Repo: a field-wise copy, the path included.
CloneRepo(value) == value

\* Every Temp path the model can construct.
TempPaths ==
    { temp_in(b, f).path : b \in BaseDirs \cup {TempDir}, f \in Foldernames }

Handles == 1..Len(repos)

IsTemp(h) == repos[h].variant = "Temp"

\* Folder names already handed out (thread_rng does not repeat itself here:
\* the 62^7 names make a collision between two invocations negligible).
UsedNames ==
    { f \in Foldernames :
        \E h \in Handles : IsTemp(h) /\ repos[h].path[Len(repos[h].path)] = TempName(f) }

\* fs::remove_dir_all that succeeds: the directory and everything below it go.
RemoveDirAll(dirs, path) == { d \in dirs : ~IsPrefix(path, d) }

\* The outcomes of fs::remove_dir_all(path): Ok with the tree removed, or Err
\* with the tree left as it was (a missing path is always Err).
RemoveOutcomes(dirs, path) ==
    IF path \in dirs THEN {RemoveDirAll(dirs, path), dirs} ELSE {dirs}

\* What impl Drop for Repo makes of the file system: Temp calls
\* remove_dir_all and discards its result, the other variants do nothing.
DropOutcomes(value, dirs) ==
    IF value.variant = "Temp" THEN RemoveOutcomes(dirs, value.path) ELSE {dirs}

\* The remove_dir_all calls one drop of value makes on path.
DropCalls(value, path) ==
    IF value.variant = "Temp" /\ value.path = path THEN 1 ELSE 0

\* InstallationRequest with the Temp arm's `true` copied into the Static arm.
InstallationRequest_StaticTrue(value) ==
    CASE value.variant = "Temp" ->
            [ctor |-> "for_path", path |-> value.path, user |-> TRUE]
      [] value.variant = "Static" ->
            [ctor |-> "for_path", path |-> value.path, user |-> TRUE]
      [] value.variant = "System" -> [ctor |-> "new_system"]
      [] value.variant = "User" -> [ctor |-> "new_user"]

\* The native constructor get_installation calls for value, with its arguments.
InstallationRequest(value) ==
    CASE value.variant = "Temp" ->
            [ctor |-> "for_path", path |-> value.path, user |-> TRUE]
      [] value.variant = "Static" ->
            [ctor |-> "for_path", path |-> value.path, user |-> value.user]
      [] value.variant = "System" -> [ctor |-> "new_system"]
      [] value.variant = "User" -> [ctor |-> "new_user"]

\* Installation::for_path that succeeds creates the directory if missing.
InstallationDirs(request, dirs) ==
    IF request.ctor = "for_path" THEN dirs \cup Ancestors(request.path) ELSE dirs

NoCall == [op |-> "none"]

Init ==
    /\ repos = <<>>
    /\ live = <<>>
    /\ fs = {TempDir} \cup BaseDirs
    /\ removeCalls = [p \in TempPaths |-> 0]
    /\ requested = <<>>
    /\ lastInst = NoCall
    /\ files = <<>>
    /\ last = NoCall

\* A new Repo value enters scope.
Construct(value) ==
    /\ Len(repos) < MaxHandles
    /\ repos' = Append(repos, value)
    /\ live' = Append(live, TRUE)
    /\ requested' = Append(requested, {})
    /\ UNCHANGED <<fs, removeCalls, lastInst, ioVars>>

Temp ==
    \E f \in Foldernames \ UsedNames : Construct(temp(f))

TempIn ==
    \E b \in BaseDirs, f \in Foldernames \ UsedNames : Construct(temp_in(b, f))

\* Repo::System (also Repo::default()).
NewSystem ==
    \E value \in {RepoSystem} : Construct(value)

\* Repo::User
NewUser ==
    \E value \in {RepoUser} : Construct(value)

NewStatic ==
    \E p \in StaticPaths, u \in BOOLEAN : Construct(RepoStatic(p, u))

\* value.clone() of a value still in scope.
Clone ==
    \E h \in Handles : live[h] /\ Construct(CloneRepo(repos[h]))

\* get_installation(&repos[h]): the native constructor succeeds or fails
\* with a glib error; the Repo value is only read.
GetInstallation ==
    \E h \in Handles, ok \in BOOLEAN :
        LET request == InstallationRequest(repos[h]) IN
        /\ live[h]
        /\ requested' = [requested EXCEPT ![h] = @ \cup {request}]
        /\ lastInst' = [op |-> "get_installation", h |-> h, request |-> request,
                        before |-> repos[h], again |-> requested[h] # {},
                        result |-> IF ok THEN "Ok" ELSE "Glib"]
        /\ fs' = IF ok THEN InstallationDirs(request, fs) ELSE fs
        /\ UNCHANGED <<repos, live, removeCalls, ioVars>>

\* The value's owning scope ends (return, early error return or unwind):
\* impl Drop for Repo runs once for the value.
Drop ==
    \E h \in Handles :
        /\ live[h]
        /\ live' = [live EXCEPT ![h] = FALSE]
        /\ \E dirs \in DropOutcomes(repos[h], fs) : fs' = dirs
        /\ removeCalls' = [p \in TempPaths |-> removeCalls[p] + DropCalls(repos[h], p)]
        /\ UNCHANGED <<repos, requested, lastInst, ioVars>>

Next ==
    \/ Temp
    \/ TempIn
    \/ NewSystem
    \/ NewUser
    \/ NewStatic
    \/ Clone
    \/ GetInstallation
    \/ Drop

Spec == Init /\ [][Next]_vars

-----------------------------------------------------------------------------
(* Results, files and the network *)

\* Option<T>: Some(x) is <<x>>, None is <<>>.
Some(x) == <<x>>
None == <<>>

\* Result<T, FlatpakExtError>, and the unwind a failed unwrap() starts.
Ok(v) == [kind |-> "Ok", value |-> v]
Err(tag) == [kind |-> "Err", error |-> tag]
Panic == [kind |-> "Panic"]

\* "file://"
FilePrefix == <<"f", "i", "l", "e", ":", "/", "/">>

\* "flathub"
Flathub == <<"f", "l", "a", "t", "h", "u", "b">>

\* "https://dl.flathub.org/repo/flathub.flatpakrepo"
FlathubUri ==
    <<"h", "t", "t", "p", "s", ":", "/", "/", "d", "l", ".">> \o Flathub \o
    <<".", "o", "r", "g", "/", "r", "e", "p", "o", "/">> \o Flathub \o
    <<".", "f", "l", "a", "t", "p", "a", "k", "r", "e", "p", "o">>

\* Byte contents, by what libflatpak makes of them: a .flatpakrepo key file
\* with or without a DefaultBranch key, a flatpak bundle, or neither.
RepoFile(default_branch) == [kind |-> "repofile", default_branch |-> default_branch]
BundleFile == [kind |-> "bundle"]
Garbage == [kind |-> "garbage"]

\* The local paths that may hold a readable file: "/a" and "/b".
FilePaths == {<<"/", "a">>, <<"/", "b">>}

FileContents == {RepoFile(Some("beta")), BundleFile}

\* The response bodies a server may send.
Bodies == {RepoFile(None), RepoFile(Some("beta")), Garbage}

\* The file systems a run may start in.
FileMaps == UNION { [D -> FileContents] : D \in SUBSET FilePaths }

\* What one blocking GET meets: no connection, no DNS answer, a timeout
\* before the response, or a response with a status and a body that can be
\* read in full or breaks off (connection reset or timeout while reading).
NetOutcomes ==
    { [get |-> g] : g \in {"transport_error", "dns_error", "timeout"} }
      \cup
    { [get |-> "response", success |-> st, body |-> b] :
        st \in BOOLEAN, b \in {Some(x) : x \in Bodies} \cup {None} }

\* gio::File::for_path(path).load_bytes(..): the bytes of a readable regular
\* file, else a glib error (the empty path names no regular file).
LoadBytes(fm, path) ==
    IF path \in DOMAIN fm THEN Ok(fm[path]) ELSE Err("Glib")

\* reqwest::blocking::get(uri)?: Err unless a response arrived; the status
\* of the response is not looked at.
BlockingGet(net) ==
    IF net.get = "response" THEN Ok(net) ELSE Err("Reqwest")

\* response.bytes().unwrap(): the body, or a panic when reading it fails.
BodyBytes(response) ==
    IF response.body = None THEN Panic ELSE Ok(response.body[1])

\* IsLocal with a substring search in place of the prefix test.
IsLocal_Substring(uri) == Contains(uri, FilePrefix)

\* uri.starts_with("file://")
IsLocal(uri) == StartsWith(uri, FilePrefix)

\* uri.split_once("file://").unwrap().0
LocalPath(uri) == SplitOnce(uri, FilePrefix)[1]

\* uri_to_bytes: the result, the local files opened and the GETs issued.
uri_to_bytes(uri, fm, net) ==
    IF IsLocal(uri)
    THEN [result |-> LoadBytes(fm, LocalPath(uri)),
          opened |-> <<LocalPath(uri)>>,
          gets |-> <<>>]
    ELSE [result |-> IF BlockingGet(net).kind = "Ok"
                     THEN BodyBytes(BlockingGet(net).value)
                     ELSE BlockingGet(net),
          opened |-> <<>>,
          gets |-> <<uri>>]

-----------------------------------------------------------------------------
(* Remote *)

Branches == {"stable", "master"}

\* Remote::default
RemoteDefault ==
    [uri |-> FlathubUri, name |-> Flathub, default_branch |-> "stable"]

\* Remote::new
RemoteNew(uri) == [uri |-> uri, name |-> uri, default_branch |-> "master"]

\* The uris callers pass: local files, a file:// shorter than its prefix
\* ("file:/"), file:// inside ("x/file:///a"), a web address, and "flathub".
Uris ==
    { FilePrefix \o <<"/", "a">>,
      FilePrefix \o <<"/", "b">>,
      FilePrefix,
      <<"f", "i", "l", "e", ":", "/">>,
      <<"x", "/">> \o FilePrefix \o <<"/", "a">>,
      <<"h", "t", "t", "p", ":", "/", "/", "x">>,
      Flathub,
      FlathubUri }

\* The descriptors a caller can hold: either constructor's, with the public
\* default_branch field set to anything.
Descriptors ==
    { [d EXCEPT !.default_branch = b] :
        d \in {RemoteDefault} \cup {RemoteNew(u) : u \in Uris}, b \in Branches }

\* libflatpak::Remote::from_file(name, bytes): a remote registered under
\* name with the key file's default branch, or a glib error.
FromFile(name, bytes) ==
    IF bytes.kind = "repofile"
    THEN Ok([name |-> Some(name), default_branch |-> bytes.default_branch])
    ELSE Err("Glib")

\* SetFlathubBranch without its test of the name: every remote gets "stable".
SetFlathubBranch_Always(remote) ==
    IF remote.name = None THEN Panic
    ELSE Ok([remote EXCEPT !.default_branch = Some("stable")])

\* if remote.name().unwrap() == "flathub" { remote.set_default_branch("stable") }
SetFlathubBranch(remote) ==
    IF remote.name = None THEN Panic
    ELSE IF remote.name[1] = Flathub
         THEN Ok([remote EXCEPT !.default_branch = Some("stable")])
         ELSE Ok(remote)

\* impl TryFrom<Remote> for libflatpak::Remote: bytes is what uri_to_bytes
\* returned for value.uri.
try_from(value, bytes) ==
    IF bytes.kind # "Ok" THEN bytes
    ELSE IF FromFile(value.name, bytes.value).kind # "Ok"
         THEN FromFile(value.name, bytes.value)
         ELSE SetFlathubBranch(FromFile(value.name, bytes.value).value)

-----------------------------------------------------------------------------
(* Flatpak *)

FlatpakBundle(path) == [variant |-> "Bundle", path |-> path]
FlatpakDownload(app_id) == [variant |-> "Download", app_id |-> app_id]

\* The Flatpak values callers resolve.
Flatpaks ==
    { FlatpakBundle(p) : p \in FilePaths } \cup
    { FlatpakDownload(a) : a \in {"org.example.App"} }

\* The native installations and remotes callers pass in.
Installations == {[ctor |-> "new_system"], [ctor |-> "new_user"]}
NativeRemotes ==
    { [name |-> n, default_branch |-> Some("stable")] :
        n \in {Some(Flathub), Some(<<"x">>), None} }

\* BundleRef::new(file): a reference to the bundle at path, or a glib error
\* when the file is missing or no bundle.
BundleRefNew(fm, path) ==
    IF path \in DOMAIN fm /\ fm[path].kind = "bundle"
    THEN Ok([out |-> "Bundle", path |-> path])
    ELSE Err("Glib")

\* installation.fetch_remote_ref_sync(name, kind, app_id, default_arch(),
\* Some(branch), ..): found on the remote, or a glib error.
FetchRemoteRefSync(installation, name, kind, app_id, branch, found) ==
    IF found
    THEN Ok([out |-> "Download", installation |-> installation, remote |-> name,
             kind |-> kind, app_id |-> app_id, arch |-> "default_arch",
             branch |-> branch])
    ELSE Err("Glib")

\* convert_to_flatpak_out with remote.name().unwrap() hoisted above the match,
\* so that the Bundle arm runs it too.
convert_to_flatpak_out_NameFirst(self, installation, remote, branch, is_runtime, fm, found) ==
    IF remote.name = None
    THEN [result |-> Panic, calls |-> {"Remote::name"}]
    ELSE IF self.variant = "Bundle"
         THEN [result |-> BundleRefNew(fm, self.path),
               calls |-> {"Remote::name", "BundleRef::new"}]
         ELSE [result |-> FetchRemoteRefSync(installation, remote.name[1],
                              IF is_runtime THEN "Runtime" ELSE "App",
                              self.app_id, branch, found),
               calls |-> {"Remote::name", "Installation::fetch_remote_ref_sync"}]

\* Flatpak::convert_to_flatpak_out: the result and the native calls made.
convert_to_flatpak_out(self, installation, remote, branch, is_runtime, fm, found) ==
    IF self.variant = "Bundle"
    THEN [result |-> BundleRefNew(fm, self.path),
          calls |-> {"BundleRef::new"}]
    ELSE IF remote.name = None
         THEN [result |-> Panic, calls |-> {"Remote::name"}]
         ELSE [result |-> FetchRemoteRefSync(installation, remote.name[1],
                              IF is_runtime THEN "Runtime" ELSE "App",
                              self.app_id, branch, found),
               calls |-> {"Remote::name", "Installation::fetch_remote_ref_sync"}]

-----------------------------------------------------------------------------
(* The resolution pipeline as a state machine: each call meets one state of *)
(* the file system and one answer of the network.                          *)

InitResolve ==
    /\ repos = <<>>
    /\ live = <<>>
    /\ fs = {TempDir} \cup BaseDirs
    /\ removeCalls = [p \in TempPaths |-> 0]
    /\ requested = <<>>
    /\ lastInst = NoCall
    /\ files \in FileMaps
    /\ last = NoCall

UriToBytes ==
    \E uri \in Uris, net \in NetOutcomes :
        LET r == uri_to_bytes(uri, files, net) IN
        /\ last' = [op |-> "uri_to_bytes", uri |-> uri, net |-> net,
                    result |-> r.result, opened |-> r.opened, gets |-> r.gets]
        /\ UNCHANGED <<repos, live, fs, removeCalls, requested, lastInst, files>>

TryFrom ==
    \E value \in Descriptors, net \in NetOutcomes :
        LET r == uri_to_bytes(value.uri, files, net) IN
        /\ last' = [op |-> "try_from", value |-> value, net |-> net,
                    bytes |-> r.result, result |-> try_from(value, r.result),
                    opened |-> r.opened, gets |-> r.gets]
        /\ UNCHANGED <<repos, live, fs, removeCalls, requested, lastInst, files>>

ConvertToFlatpakOut ==
    \E self \in Flatpaks, installation \in Installations, remote \in NativeRemotes,
       branch \in Branches, is_runtime \in BOOLEAN, found \in BOOLEAN :
        LET r == convert_to_flatpak_out(self, installation, remote, branch,
                                        is_runtime, files, found) IN
        /\ last' = [op |-> "convert_to_flatpak_out", self |-> self,
                    installation |-> installation, remote |-> remote,
                    branch |-> branch, is_runtime |-> is_runtime,
                    result |-> r.result, calls |-> r.calls]
        /\ UNCHANGED <<repos, live, fs, removeCalls, requested, lastInst, files>>

NextResolve ==
    \/ UriToBytes
    \/ TryFrom
    \/ ConvertToFlatpakOut

SpecResolve == InitResolve /\ [][NextResolve]_vars

-----------------------------------------------------------------------------
(* Claims about the Repo lifecycle, checked under Spec *)

TempHandles == { h \in Handles : IsTemp(h) }

\* C1: for every Temp(path) value, the recursive delete of its path fires
\* exactly once: never more than once, and once the value's scope has ended
\* not zero times.
C1_DisposedExactlyOnce ==
    \A h \in TempHandles :
        /\ removeCalls[repos[h].path] <= 1
        /\ ~live[h] => removeCalls[repos[h].path] = 1

\* C2: once a Temp handle's owning scope has ended, its path does not exist
\* on the file system, whether or not get_installation had created it.
C2_GoneAfterScope ==
    \A h \in TempHandles : ~live[h] => repos[h].path \notin fs

\* The native constructor and arguments the specification gives each variant.
C7_Expected(value, request) ==
    CASE value.variant = "Temp" ->
            /\ request.ctor = "for_path"
            /\ request.path = value.path
            /\ request.user = TRUE
      [] value.variant = "Static" ->
            /\ request.ctor = "for_path"
            /\ request.path = value.path
            /\ request.user = value.user
      [] value.variant = "System" -> request = [ctor |-> "new_system"]
      [] value.variant = "User" -> request = [ctor |-> "new_user"]

\* C7: get_installation asks for the path-based installation at the handle's
\* path with user = TRUE for Temp and the caller's flag for Static, and for
\* the system / user installation without a path for System / User; it
\* leaves the Repo value as it was, and every call on one handle makes the
\* same request.
C7_InstallationMapping ==
    /\ lastInst.op = "get_installation" =>
          /\ repos[lastInst.h] = lastInst.before
          /\ C7_Expected(repos[lastInst.h], lastInst.request)
    /\ \A h \in Handles :
          \A request \in requested[h] : C7_Expected(repos[h], request)
    /\ \A h \in Handles : Cardinality(requested[h]) <= 1

\* C7's case: a repeated call on a Static handle created with user = FALSE,
\* while a Temp handle has had its installation requested too.
C7_Witness ==
    /\ lastInst.op = "get_installation"
    /\ lastInst.again
    /\ repos[lastInst.h].variant = "Static"
    /\ repos[lastInst.h].user = FALSE
    /\ \E h \in TempHandles : requested[h] # {}

\* C10: no step other than a Live Temp handle's own drop removes that
\* handle's directory, and dropping a System, User or Static value removes
\* nothing.
C10_OnlyOwnDropRemoves ==
    [][ /\ \A h \in TempHandles :
              (live[h] /\ live'[h] /\ repos[h].path \in fs) => repos[h].path \in fs'
        /\ \A h \in Handles \ TempHandles :
              (live[h] /\ ~live'[h]) => fs' = fs ]_vars

-----------------------------------------------------------------------------
(* Claims about the resolution pipeline, checked under SpecResolve *)

\* What follows "file://" in a uri that begins with it.
AfterPrefix(uri) == SubSeq(uri, Len(FilePrefix) + 1, Len(uri))

BeginsWithFilePrefix(uri) ==
    /\ Len(uri) >= Len(FilePrefix)
    /\ \A i \in 1..Len(FilePrefix) : uri[i] = FilePrefix[i]

\* C3: for a uri "file://" ++ p, uri_to_bytes opens exactly the path p and,
\* when p is a readable file, returns its full contents.
C3_ReadsFileAfterPrefix ==
    (last.op = "uri_to_bytes" /\ BeginsWithFilePrefix(last.uri)) =>
        /\ last.opened = <<AfterPrefix(last.uri)>>
        /\ AfterPrefix(last.uri) \in DOMAIN files =>
              last.result = Ok(files[AfterPrefix(last.uri)])

\* C4: uri_to_bytes picks its source by a prefix test only: a uri beginning
\* with "file://" causes no GET; any other uri, also one with "file://"
\* further in, causes no local file to be opened and exactly the GET of uri.
C4_PrefixTestOnly ==
    last.op = "uri_to_bytes" =>
        IF BeginsWithFilePrefix(last.uri)
        THEN last.gets = <<>>
        ELSE last.opened = <<>> /\ last.gets = <<last.uri>>

\* C4's case: a uri with "file://" at a non-zero offset went to the network.
C4_Witness ==
    /\ last.op = "uri_to_bytes"
    /\ ~BeginsWithFilePrefix(last.uri)
    /\ Contains(last.uri, FilePrefix)
    /\ last.gets = <<last.uri>>
    /\ last.opened = <<>>

\* The GET ended in a transport failure, a DNS failure, a timeout or a
\* non-success status.
C5_GetFailed(net) ==
    \/ net.get \in {"transport_error", "dns_error", "timeout"}
    \/ net.get = "response" /\ ~net.success
    \/ net.get = "response" /\ net.body = None

\* C5: for a uri not beginning with "file://", uri_to_bytes makes exactly one
\* GET attempt, and a failed attempt is returned as the Reqwest error, never
\* as bytes.
C5_FailedGetIsReqwest ==
    (last.op = "uri_to_bytes" /\ ~BeginsWithFilePrefix(last.uri)) =>
        /\ Len(last.gets) = 1
        /\ C5_GetFailed(last.net) => last.result = Err("Reqwest")

\* The descriptor is what Remote::default() builds, whatever its public
\* default_branch field was set to afterwards.
C6_IsDefault(value) == value.uri = FlathubUri /\ value.name = Flathub

\* C6: a successful conversion yields default branch "stable" exactly when
\* forced by the resolved name "flathub": a default-constructed descriptor
\* always ends with "stable", and a remote resolved under another name keeps
\* the default branch its descriptor bytes specified, whatever the
\* descriptor's own default_branch field holds.
C6_FlathubBranchOverride ==
    (last.op = "try_from" /\ last.result.kind = "Ok") =>
        /\ last.result.value.name = Some(Flathub) =>
              last.result.value.default_branch = Some("stable")
        /\ last.result.value.name # Some(Flathub) =>
              last.result.value.default_branch = last.bytes.value.default_branch
        /\ C6_IsDefault(last.value) =>
              last.result.value.default_branch = Some("stable")

\* C6's case: a default-constructed descriptor whose default_branch field was
\* set to "master" and whose bytes say "beta" converts to "stable".
C6_Witness ==
    /\ last.op = "try_from"
    /\ last.result.kind = "Ok"
    /\ C6_IsDefault(last.value)
    /\ last.value.default_branch = "master"
    /\ last.net.success
    /\ last.bytes.value.default_branch = Some("beta")
    /\ last.result.value.default_branch = Some("stable")

\* C8: for Flatpak::Bundle(path) the outcome is a function of path and the
\* file there alone: every other choice of installation, remote, branch and
\* is_runtime gives the same result on the same file system, and the only
\* native call made is BundleRef::new (no fetch over the network, nothing
\* called on installation or remote).
C8_BundleIgnoresContext ==
    (last.op = "convert_to_flatpak_out" /\ last.self.variant = "Bundle") =>
        /\ last.calls = {"BundleRef::new"}
        /\ \A installation \in Installations, remote \in NativeRemotes,
              branch \in Branches, is_runtime \in BOOLEAN, found \in BOOLEAN :
                convert_to_flatpak_out(last.self, installation, remote, branch,
                                       is_runtime, files, found).result = last.result

\* C8's case: a valid bundle resolved while the remote passed in has no name.
C8_Witness ==
    /\ last.op = "convert_to_flatpak_out"
    /\ last.self.variant = "Bundle"
    /\ last.remote.name = None
    /\ last.result.kind = "Ok"

\* C9: every fallible operation ends in success or in a returned error tagged
\* Glib, IO or Reqwest, whatever the underlying calls did.
C9_SuccessOrTaggedError ==
    /\ last.op # "none" =>
          \/ last.result.kind = "Ok"
          \/ last.result.kind = "Err" /\ last.result.error \in {"Glib", "IO", "Reqwest"}
    /\ lastInst.op # "none" => lastInst.result \in {"Ok", "Glib", "IO", "Reqwest"}

=============================================================================
